---- MODULE Spec2Model ----
(***************************************************************************)
(* The AMD SEV launch controller of libkrun (src/vmm/src/linux/amdsev.rs). *)
(*                                                                         *)
(* One logical thread of control constructs a controller (AmdSev::new) and *)
(* then calls vm_prepare and vm_attest on it, in any order the caller      *)
(* likes.  Every call the code makes into a collaborator (a KVM ioctl, a   *)
(* curl transfer, a file, a decoder) is one step of the model; whether it  *)
(* succeeds is the environment's choice.  Every hypervisor command and     *)
(* every network request is recorded in `log` together with the number of  *)
(* the call that issued it.                                                *)
(***************************************************************************)
EXTENDS Integers, Sequences, FiniteSets

(* ------------------------------------------------------------------ *)
(* Bounds of the model                                                  *)
(* ------------------------------------------------------------------ *)

\* number of vm_prepare / vm_attest calls made on one controller
MaxCalls == 2
\* largest number of guest memory regions, and of measured regions per call
MaxRegions == 2
\* number of requests made on a CurlAgent taken alone
MaxRequests == 4
\* number of ';'-separated parts of a header given to extract_session_id
MaxParts == 3
\* number of threads that share one controller
MaxThreads == 3

(* ------------------------------------------------------------------ *)
(* Values                                                               *)
(* ------------------------------------------------------------------ *)

None == "None"
Ok == "Ok"
Panic == "panic"

\* TeeConfig.attestation_url: empty, or the base URL of a key broker
Urls == {"", "https://kbs"}
\* SevCertConfig.vendor_chain: empty, or the path of a local chain file
ChainPaths == {"", "/etc/sev.chain"}
WorkloadIds == {"wl"}

\* PolicyFlags::ENCRYPTED_STATE, bit 2 of the policy flags
ENCRYPTED_STATE == 4
\* the (id, start.policy) of the challenges a broker may send: NO_DEBUG alone,
\* and NO_DEBUG with ENCRYPTED_STATE
Challenges == <<<<"idA", 1>>, <<"idB", 5>>>>

\* the flags compared for equality instead of tested for the bit
PolicyEquals(policy, flag) == policy = flag

\* PolicyFlags::contains, for a flag of one bit
PolicyContains(policy, flag) == (policy \div flag) % 2 = 1

\* Addresses and lengths are counted in pages of 4 KiB, so that a length of
\* 2^32 bytes is U32_PAGES pages and `as u32`, on a whole number of pages,
\* is the remainder modulo U32_PAGES.
U32_PAGES == 1048576

\* `x as u32` for a usize or u64 x
as_u32(x) == x % U32_PAGES

\* `x as u64` for a usize or u64 x
as_u64(x) == x

\* the length of region i: one page for the odd regions, 4 GiB and a page for
\* the even ones
RegionLen(i) == IF i % 2 = 1 THEN 1 ELSE U32_PAGES + 1

\* guest memory of n regions
GuestMemoryMmap(n) ==
  [i \in 1..n |-> [host_addr |-> i * 2 * U32_PAGES, size |-> RegionLen(i)]]

\* the first n regions of guest memory, as the measured regions given to vm_attest
MeasuredRegions(n) ==
  [i \in 1..n |-> [host_addr |-> i * 2 * U32_PAGES, size |-> RegionLen(i)]]

VARIABLES
  tee_config,   \* the TeeConfig given to AmdSev::new (with the vendor_chain of its tee_data)
  guest_mem,    \* the guest memory of the VM
  measured_regions, \* the regions of it the caller has vm_attest measure
  pc,           \* position of the thread of control
  amd,          \* the AmdSev values there are: <<>>, or <<the one new returned>>
  curl_agent,   \* the CurlAgent: captured session_id, and the state of the mutex around it
  loc,          \* locals of the running call
  log,          \* hypervisor commands and network requests issued so far
  new_result,   \* what AmdSev::new returned: None while running, Ok, an Error, or Panic
  results,      \* what the vm_prepare / vm_attest calls returned, one entry per call
  headers,      \* CurlAgent taken alone: what the response headers of each request yielded
  arg,          \* a function taken alone: its argument
  ret,          \* a function taken alone: what it returned
  threads       \* vm_attest called from several threads: the position of each

vars == <<tee_config, guest_mem, measured_regions, pc, amd, curl_agent, loc, log, new_result, results,
          headers, arg, ret, threads>>

\* the AmdSev a method is called on (&self)
this == amd[1]

\* the number of the call now running (AmdSev::new is call 0)
CurCall == Len(results)

NoLoc == [i |-> 0, regions |-> <<>>, chain |-> None, cpu_model |-> None,
          response |-> None, start |-> None, session_id |-> None, sev_es |-> FALSE,
          measurement |-> <<>>]

(* ------------------------------------------------------------------ *)
(* The log                                                              *)
(* ------------------------------------------------------------------ *)

\* a kvm_sev_cmd handed to KVM_MEMORY_ENCRYPT_OP
SevCmd(kind, cmd, ok) ==
  [call |-> CurCall, kind |-> kind, id |-> cmd.id, sev_fd |-> cmd.sev_fd,
   data |-> cmd.data, ok |-> ok, url |-> <<>>, cookie |-> None,
   body |-> <<>>, out |-> <<>>]

\* a kvm_enc_region handed to KVM_MEMORY_ENCRYPT_REG_REGION
RegionCmd(enc_region, ok) ==
  [call |-> CurCall, kind |-> "ENC_REGION", id |-> -1, sev_fd |-> None,
   data |-> <<enc_region.addr, enc_region.size>>, ok |-> ok, url |-> <<>>,
   cookie |-> None, body |-> <<>>, out |-> <<>>]

\* the decoding of a response body (no command, no request)
Parse(kind, ok) ==
  [call |-> CurCall, kind |-> kind, id |-> -1, sev_fd |-> None,
   data |-> <<>>, ok |-> ok, url |-> <<>>, cookie |-> None,
   body |-> <<>>, out |-> <<>>]

\* a transfer of the curl agent; cookie is the session_id a POST sends, if any,
\* and rsp the body received (<<>> where the model does not look into it)
NetReq(kind, url, rsp, ok) ==
  [call |-> CurCall, kind |-> kind, id |-> -1, sev_fd |-> None,
   data |-> rsp, ok |-> ok, url |-> url,
   cookie |-> IF kind = "POST" THEN curl_agent.session_id ELSE None,
   body |-> <<>>, out |-> <<>>]

\* the POST ev with the body it sends
Post(ev, body) == [ev EXCEPT !.body = <<body>>]

\* the command ev with what the hypervisor wrote to the buffer it points to
Wrote(ev, out) == [ev EXCEPT !.out = <<out>>]

Emit(ev) == log' = Append(log, ev)

IsNet(e) == e.kind \in {"GET", "POST"}
IsHyp(e) == e.kind \in {"INIT", "ENC_REGION", "LAUNCH_START", "LAUNCH_UPDATE_DATA",
                        "LAUNCH_UPDATE_VMSA", "LAUNCH_SECRET", "LAUNCH_MEASURE",
                        "LAUNCH_FINISH"}

Init ==
  /\ tee_config \in [attestation_url : Urls, vendor_chain : ChainPaths,
                     workload_id : WorkloadIds]
  /\ guest_mem \in {GuestMemoryMmap(n) : n \in 1..MaxRegions}
  /\ measured_regions \in {MeasuredRegions(n) : n \in 0..Len(guest_mem)}
  /\ pc = "new"
  /\ amd = <<>>
  /\ curl_agent = None
  /\ loc = NoLoc
  /\ log = <<>>
  /\ new_result = None
  /\ results = <<>>
  /\ headers = <<>>
  /\ arg = None
  /\ ret = None
  /\ threads = <<>>

(* ------------------------------------------------------------------ *)
(* AmdSev::new                                                          *)
(* ------------------------------------------------------------------ *)

\* what no step of new, vm_prepare and vm_attest writes: the configuration and
\* the guest memory, and the variables of the functions taken alone
Rest == <<tee_config, guest_mem, measured_regions, headers, arg, ret, threads>>

\* a failure of new that falls back to a controller with a default local session
new_fail_keeps_controller(err) ==
  /\ pc' = "ready"
  /\ new_result' = err
  /\ amd' = <<[start |-> [policy |-> 0, cert |-> "cert@local", session |-> "session@local"],
              session_id |-> None, sev_es |-> FALSE]>>

\* an early return of new with an Err (the `?` operator): no AmdSev exists
new_fail(err) ==
  /\ pc' = "new_failed"
  /\ new_result' = err
  /\ UNCHANGED amd

\* a step of new that calls a collaborator and either goes on or returns err
NewStep(from, to, err) ==
  /\ pc = from
  /\ \/ /\ pc' = to
        /\ UNCHANGED <<Rest, amd, curl_agent, loc, log, new_result, results>>
     \/ new_fail(err) /\ UNCHANGED <<Rest, curl_agent, loc, log, results>>

CurlAgent_new == [session_id |-> None, locked |-> FALSE, poisoned |-> FALSE]

\* Firmware::open, CurlAgent::new
new_open_firmware ==
  /\ pc = "new"
  /\ \/ /\ pc' = "gasc_parse"
        /\ curl_agent' = CurlAgent_new
        /\ UNCHANGED <<Rest, amd, loc, log, new_result, results>>
     \/ new_fail("OpenFirmware") /\ UNCHANGED <<Rest, curl_agent, loc, log, results>>

\* get_and_store_chain with the test of vendor_chain inverted
get_and_store_chain_parse_inverted ==
  /\ pc = "gasc_parse"
  /\ NewStep("gasc_parse",
             IF tee_config.vendor_chain = "" THEN "gasc_open" ELSE "fc_pdh",
             "ParseSevCertConfig")

\* get_and_store_chain: serde_json::from_str(&tee_config.tee_data)
get_and_store_chain_parse ==
  /\ pc = "gasc_parse"
  /\ NewStep("gasc_parse",
             IF tee_config.vendor_chain # "" THEN "gasc_open" ELSE "fc_pdh",
             "ParseSevCertConfig")

\* get_and_store_chain: File::open(filepath)
get_and_store_chain_open ==
  /\ pc = "gasc_open"
  /\ NewStep("gasc_open", "gasc_decode", "OpenChainFile")

\* get_and_store_chain: certs::Chain::decode(&mut file, ())
get_and_store_chain_decode ==
  /\ pc = "gasc_decode"
  /\ \/ /\ pc' = "new_branch"
        /\ loc' = [loc EXCEPT !.chain = "chain@file"]
        /\ UNCHANGED <<Rest, amd, curl_agent, log, new_result, results>>
     \/ new_fail("DecodeChain") /\ UNCHANGED <<Rest, curl_agent, loc, log, results>>

\* fetch_chain: fw.pdh_cert_export().expect(..) panics on failure
fetch_chain_pdh_cert_export ==
  /\ pc = "fc_pdh"
  /\ \/ /\ pc' = "fc_id"
        /\ UNCHANGED <<Rest, amd, curl_agent, loc, log, new_result, results>>
     \/ new_fail(Panic) /\ UNCHANGED <<Rest, curl_agent, loc, log, results>>

\* fetch_chain: fw.get_identifier()
fetch_chain_get_identifier ==
  /\ pc = "fc_id"
  /\ NewStep("fc_id", "fc_get_cek", "FetchIdentifier")

CEK_SVC == "https://kdsintf.amd.com/cek/id"
ASK_ARK_SVC == "https://developer.amd.com/wp-content/resources/"

\* CurlAgent::get as used during construction: one transfer, no cookie handling
new_get(from, to, url, err) ==
  /\ pc = from
  /\ \/ /\ pc' = to
        /\ Emit(NetReq("GET", url, <<>>, TRUE))
        /\ UNCHANGED <<Rest, amd, curl_agent, loc, new_result, results>>
     \/ /\ new_fail(err)
        /\ Emit(NetReq("GET", url, <<>>, FALSE))
        /\ UNCHANGED <<Rest, curl_agent, loc, results>>

\* fetch_chain: curl_agent.get("{CEK_SVC}/{id}")
fetch_chain_get_cek ==
  /\ pc = "fc_get_cek"
  /\ new_get("fc_get_cek", "fc_decode_cek", <<CEK_SVC, "chip-id">>, "DownloadCek")

\* fetch_chain: certs::sev::Certificate::decode
fetch_chain_decode_cek ==
  /\ pc = "fc_decode_cek"
  /\ NewStep("fc_decode_cek", "fc_cpu", "DecodeCek")

CpuFamilies == {None, "23", "25", "6"}
CpuModelIds == {None, "1", "49", "2"}

\* find_cpu_model with the arms of family "23" repeated for family "25"
find_cpu_model_arms_copied(readable, has_core, family, model) ==
  IF ~readable THEN "ReadingCpuData"
  ELSE IF ~has_core THEN "ReadingCoreData"
  ELSE IF family = None THEN "InvalidCpuData"
  ELSE IF family \in {"23", "25"} THEN
         (IF model = None THEN "InvalidCpuData"
          ELSE IF model = "1" THEN (IF family = "23" THEN "naples" ELSE "milan")
          ELSE IF model = "49" THEN "rome"
          ELSE "UnknownCpuModel")
  ELSE "UnknownCpuModel"

\* find_cpu_model over what procfs reports: whether /proc/cpuinfo could be read,
\* whether it has a core 0, and that core's "cpu family" and "model" fields
find_cpu_model(readable, has_core, family, model) ==
  IF ~readable THEN "ReadingCpuData"
  ELSE IF ~has_core THEN "ReadingCoreData"
  ELSE IF family = None THEN "InvalidCpuData"
  ELSE IF family = "23" THEN
         (IF model = None THEN "InvalidCpuData"
          ELSE IF model = "1" THEN "naples"
          ELSE IF model = "49" THEN "rome"
          ELSE "UnknownCpuModel")
  ELSE IF family = "25" THEN
         (IF model = None THEN "InvalidCpuData"
          ELSE IF model = "1" THEN "milan"
          ELSE "UnknownCpuModel")
  ELSE "UnknownCpuModel"

CpuModel == {"naples", "rome", "milan"}

\* fetch_chain: let cpu_model = find_cpu_model()?
fetch_chain_find_cpu_model ==
  /\ pc = "fc_cpu"
  /\ \E readable \in BOOLEAN, has_core \in BOOLEAN,
        family \in CpuFamilies, model \in CpuModelIds :
       LET r == find_cpu_model(readable, has_core, family, model) IN
       IF r \in CpuModel
       THEN /\ pc' = "fc_get_ask_ark"
            /\ loc' = [loc EXCEPT !.cpu_model = r]
            /\ UNCHANGED <<Rest, amd, curl_agent, log, new_result, results>>
       ELSE new_fail(r) /\ UNCHANGED <<Rest, curl_agent, loc, log, results>>

\* fetch_chain: curl_agent.get("{ASK_ARK_SVC}/ask_ark_{cpu_model}.cert")
fetch_chain_get_ask_ark ==
  /\ pc = "fc_get_ask_ark"
  /\ new_get("fc_get_ask_ark", "fc_decode_ask_ark",
             <<ASK_ARK_SVC, "ask_ark_", loc.cpu_model, ".cert">>, "DownloadCek")

\* fetch_chain: certs::ca::Chain::decode
fetch_chain_decode_ask_ark ==
  /\ pc = "fc_decode_ask_ark"
  /\ \/ /\ pc' = "gasc_create"
        /\ loc' = [loc EXCEPT !.chain = "chain@fetched"]
        /\ UNCHANGED <<Rest, amd, curl_agent, log, new_result, results>>
     \/ new_fail("DecodeAskArk") /\ UNCHANGED <<Rest, curl_agent, loc, log, results>>

\* get_and_store_chain: File::create("/tmp/libkrun-sev.chain")
get_and_store_chain_create ==
  /\ pc = "gasc_create"
  /\ NewStep("gasc_create", "gasc_encode", "OpenTmpFile")

\* get_and_store_chain: chain.encode(&mut file, ())
get_and_store_chain_encode ==
  /\ pc = "gasc_encode"
  /\ NewStep("gasc_encode", "new_branch", "EncodeChain")

\* session identifiers a response header of the broker may carry (None: no such header)
HeaderSessionIds == {None, "cookie1"}

\* the header_function storing whatever extract_session_id returned, None too
post_header_clears(agent, sid) == [agent EXCEPT !.session_id = sid]

\* the header_function of CurlAgent::post: a header that yields a session
\* identifier replaces the captured one, any other header leaves it alone
post_header(agent, sid) ==
  IF sid # None THEN [agent EXCEPT !.session_id = sid] ELSE agent

\* bodies the broker may return to the auth POST: not JSON of a Challenge, a
\* Challenge whose extra_params is no SevChallenge, or a valid challenge
Responses ==
  {[challenge_ok |-> FALSE, sev_challenge_ok |-> FALSE, id |-> None, policy |-> 0],
   [challenge_ok |-> TRUE, sev_challenge_ok |-> FALSE, id |-> None, policy |-> 0]}
  \cup {[challenge_ok |-> TRUE, sev_challenge_ok |-> TRUE,
          id |-> Challenges[k][1], policy |-> Challenges[k][2]] :
         k \in DOMAIN Challenges}

\* new: fw.platform_status()
new_platform_status ==
  /\ tee_config.attestation_url # ""
  /\ NewStep("new_branch", "new_post_auth", "PlatformStatus")

\* new: the Request sent to the broker, with the SevRequest { build, chain }
Request(cfg, chain) ==
  [version |-> "0.0.0", workload_id |-> cfg.workload_id, extra_params |-> chain]

\* new: curl_agent.post("{attestation_url}/kbs/v0/auth", request)
new_post_auth ==
  /\ pc = "new_post_auth"
  /\ LET url == <<tee_config.attestation_url, "/kbs/v0/auth">>
         request == Request(tee_config, loc.chain)
     IN \E sid \in HeaderSessionIds :
       /\ curl_agent' = post_header(curl_agent, sid)
       /\ \/ \E rsp \in Responses :
               /\ pc' = "new_parse_challenge"
               /\ loc' = [loc EXCEPT !.response = rsp]
               /\ Emit(Post(NetReq("POST", url, <<rsp>>, TRUE), request))
               /\ UNCHANGED <<Rest, amd, new_result, results>>
          \/ /\ new_fail("SessionRequest")
             /\ Emit(Post(NetReq("POST", url, <<>>, FALSE), request))
             /\ UNCHANGED <<Rest, loc, results>>

\* new: serde_json::from_slice::<Challenge>(&response)
new_parse_challenge ==
  /\ pc = "new_parse_challenge"
  /\ IF loc.response.challenge_ok
     THEN /\ pc' = "new_parse_sev_challenge"
          /\ UNCHANGED <<Rest, amd, curl_agent, loc, log, new_result, results>>
     ELSE new_fail("ParseSessionResponse") /\ UNCHANGED <<Rest, curl_agent, loc, log, results>>

\* new: serde_json::from_str::<SevChallenge>(&challenge.extra_params), the
\* ENCRYPTED_STATE test and the (start, session_id) of the remote branch
new_parse_sev_challenge ==
  /\ pc = "new_parse_sev_challenge"
  /\ IF loc.response.sev_challenge_ok
     THEN /\ pc' = "new_return"
          /\ loc' = [loc EXCEPT
               !.sev_es = PolicyContains(loc.response.policy, ENCRYPTED_STATE),
               !.start = [policy |-> loc.response.policy, cert |-> "cert@broker",
                          session |-> "session@broker"],
               !.session_id = loc.response.id]
          /\ UNCHANGED <<Rest, amd, curl_agent, log, new_result, results>>
     ELSE new_fail("ParseSessionResponse") /\ UNCHANGED <<Rest, curl_agent, loc, log, results>>

\* new: Session::try_from(Policy::default())
new_session_try_from ==
  /\ tee_config.attestation_url = ""
  /\ NewStep("new_branch", "new_session_start", "SessionFromPolicy")

\* new: session.start(chain), and the (start, None) of the local branch
new_session_start ==
  /\ pc = "new_session_start"
  /\ \/ /\ pc' = "new_return"
        /\ loc' = [loc EXCEPT
             !.start = [policy |-> 0, cert |-> "cert@local", session |-> "session@local"],
             !.session_id = None]
        /\ UNCHANGED <<Rest, amd, curl_agent, log, new_result, results>>
     \/ new_fail("StartFromSession") /\ UNCHANGED <<Rest, curl_agent, loc, log, results>>

\* new returning a controller without the session identifier it negotiated
new_return_drops_session_id ==
  /\ pc = "new_return"
  /\ pc' = "ready"
  /\ amd' = <<[start |-> loc.start, session_id |-> None, sev_es |-> loc.sev_es]>>
  /\ new_result' = Ok
  /\ loc' = NoLoc
  /\ UNCHANGED <<Rest, curl_agent, log, results>>

\* new: Ok(AmdSev { tee_config, fw, start, session_id, sev_es, curl_agent })
new_return ==
  /\ pc = "new_return"
  /\ pc' = "ready"
  /\ amd' = <<[start |-> loc.start, session_id |-> loc.session_id, sev_es |-> loc.sev_es]>>
  /\ new_result' = Ok
  /\ loc' = NoLoc
  /\ UNCHANGED <<Rest, curl_agent, log, results>>


(* ------------------------------------------------------------------ *)
(* The commands                                                         *)
(* ------------------------------------------------------------------ *)

\* self.fw.as_raw_fd() and vm_fd.as_raw_fd()
FwFd == "fw.as_raw_fd"
VmFd == "vm_fd.as_raw_fd"

sev_init(self) ==
  [id |-> IF self.sev_es THEN 1 ELSE 0, sev_fd |-> FwFd, data |-> <<>>]

sev_launch_start(self) ==
  [id |-> 2, sev_fd |-> FwFd,
   data |-> <<self.start.policy, self.start.cert, self.start.session>>]

sev_launch_update_data(self, data_uaddr, data_size) ==
  [id |-> 3, sev_fd |-> FwFd, data |-> <<as_u64(data_uaddr), as_u32(data_size)>>]

sev_launch_measure(self) == [id |-> 6, sev_fd |-> FwFd, data |-> <<>>]

sev_launch_finish(self) == [id |-> 7, sev_fd |-> FwFd, data |-> <<>>]

sev_inject_secret(self, secret, secret_host_addr) ==
  [id |-> 5, sev_fd |-> VmFd, data |-> <<secret, secret_host_addr>>]

sev_launch_update_vmsa(self) == [id |-> 4, sev_fd |-> VmFd, data |-> <<>>]

(* ------------------------------------------------------------------ *)
(* Calls on the controller                                              *)
(* ------------------------------------------------------------------ *)

\* the caller may call a method of the AmdSev that new returned
CanCall == pc = "ready" /\ Len(results) < MaxCalls

call(op) == results' = Append(results, [op |-> op, res |-> None])

\* the running call returns r to its caller
return(r) ==
  /\ pc' = "ready"
  /\ results' = [results EXCEPT ![Len(results)].res = r]
  /\ loc' = NoLoc

\* the running call panics: the thread of control unwinds
panic ==
  /\ pc' = "panicked"
  /\ results' = [results EXCEPT ![Len(results)].res = Panic]
  /\ loc' = NoLoc

\* the running call goes on at `next` with locals l, or returns Ok(())
goto(next, l) ==
  IF next = "return"
  THEN return(Ok)
  ELSE pc' = next /\ loc' = l /\ UNCHANGED results

(* ------------------------------------------------------------------ *)
(* AmdSev::vm_prepare                                                   *)
(* ------------------------------------------------------------------ *)

\* vm_prepare without its LAUNCH_START: Ok(()) right after the regions
vm_prepare_next_without_launch_start(at, i) ==
  IF i < Len(guest_mem) THEN "vp_region" ELSE "return"

\* vm_prepare with the loop over the regions ending one region early
vm_prepare_next_skips_last_region(at, i) ==
  CASE at \in {"vp_sev_init", "vp_region"} ->
         IF i + 1 < Len(guest_mem) THEN "vp_region" ELSE "vp_sev_launch_start"
    [] at = "vp_sev_launch_start" -> "return"

\* the order of vm_prepare's steps: what follows step `at` when it succeeded
\* (i: the regions of guest_mem registered so far)
vm_prepare_next(at, i) ==
  CASE at = "vp_sev_init" ->
         IF i < Len(guest_mem) THEN "vp_region" ELSE "vp_sev_launch_start"
    [] at = "vp_region" ->
         IF i < Len(guest_mem) THEN "vp_region" ELSE "vp_sev_launch_start"
    [] at = "vp_sev_launch_start" -> "return"

vm_prepare ==
  /\ CanCall
  /\ call("vm_prepare")
  /\ pc' = "vp_sev_init"
  /\ UNCHANGED <<Rest, amd, curl_agent, loc, log, new_result>>

\* self.sev_init(vm_fd).map_err(Error::SevInit)?
vm_prepare_sev_init ==
  /\ pc = "vp_sev_init"
  /\ \/ /\ Emit(SevCmd("INIT", sev_init(this), TRUE))
        /\ goto(vm_prepare_next(pc, 0), [loc EXCEPT !.i = 1])
     \/ /\ Emit(SevCmd("INIT", sev_init(this), FALSE))
        /\ return("SevInit")
  /\ UNCHANGED <<Rest, amd, curl_agent, new_result>>

\* vm_fd.register_enc_memory_region(&enc_region).map_err(|_| Error::MemoryEncryptRegion)?
vm_prepare_register_enc_memory_region ==
  /\ pc = "vp_region"
  /\ LET region == guest_mem[loc.i]
         enc_region == [addr |-> as_u64(region.host_addr), size |-> as_u64(region.size)]
     IN \/ /\ Emit(RegionCmd(enc_region, TRUE))
           /\ goto(vm_prepare_next(pc, loc.i), [loc EXCEPT !.i = loc.i + 1])
        \/ /\ Emit(RegionCmd(enc_region, FALSE))
           /\ return("MemoryEncryptRegion")
  /\ UNCHANGED <<Rest, amd, curl_agent, new_result>>

\* self.sev_launch_start(vm_fd).map_err(Error::SevLaunchStart)?; Ok(())
vm_prepare_sev_launch_start ==
  /\ pc = "vp_sev_launch_start"
  /\ \/ /\ Emit(SevCmd("LAUNCH_START", sev_launch_start(this), TRUE))
        /\ goto(vm_prepare_next(pc, loc.i), loc)
     \/ /\ Emit(SevCmd("LAUNCH_START", sev_launch_start(this), FALSE))
        /\ return("SevLaunchStart")
  /\ UNCHANGED <<Rest, amd, curl_agent, new_result>>

(* ------------------------------------------------------------------ *)
(* AmdSev::vm_attest                                                    *)
(* ------------------------------------------------------------------ *)

\* the loop over the measured regions followed by LAUNCH_UPDATE_VMSA whatever sev_es
vm_attest_after_regions_always_vmsa == "va_sev_launch_update_vmsa"

\* what follows the loop over the measured regions
vm_attest_after_regions ==
  IF this.sev_es THEN "va_sev_launch_update_vmsa" ELSE "va_sev_launch_measure"

\* the remote exchange entered on an empty attestation_url instead of a set one
vm_attest_after_measure_inverted ==
  IF tee_config.attestation_url = "" THEN "va_lock" ELSE "va_sev_launch_finish"

\* what follows LAUNCH_MEASURE
vm_attest_after_measure ==
  IF tee_config.attestation_url # "" THEN "va_lock" ELSE "va_sev_launch_finish"

\* vm_attest with LAUNCH_MEASURE issued before LAUNCH_UPDATE_VMSA
vm_attest_next_measure_first(at, regions, i) ==
  CASE at \in {"ready", "va_sev_launch_update_data"} ->
         IF i < Len(regions) THEN "va_sev_launch_update_data"
         ELSE "va_sev_launch_measure"
    [] at = "va_sev_launch_measure" ->
         IF this.sev_es THEN "va_sev_launch_update_vmsa" ELSE vm_attest_after_measure
    [] at = "va_sev_launch_update_vmsa" -> vm_attest_after_measure
    [] at = "va_lock" -> "va_post_attest"
    [] at = "va_post_attest" -> "va_get_key"
    [] at = "va_get_key" -> "va_parse_secret"
    [] at = "va_parse_secret" -> "va_sev_inject_secret"
    [] at = "va_sev_inject_secret" -> "va_sev_launch_finish"
    [] at = "va_sev_launch_finish" -> "return"

\* vm_attest with LAUNCH_FINISH issued right after LAUNCH_MEASURE, before the
\* remote exchange
vm_attest_next_finish_before_secret(at, regions, i) ==
  CASE at \in {"ready", "va_sev_launch_update_data"} ->
         IF i < Len(regions) THEN "va_sev_launch_update_data"
         ELSE vm_attest_after_regions
    [] at = "va_sev_launch_update_vmsa" -> "va_sev_launch_measure"
    [] at = "va_sev_launch_measure" -> "va_sev_launch_finish"
    [] at = "va_sev_launch_finish" ->
         IF tee_config.attestation_url # "" THEN "va_lock" ELSE "return"
    [] at = "va_lock" -> "va_post_attest"
    [] at = "va_post_attest" -> "va_get_key"
    [] at = "va_get_key" -> "va_parse_secret"
    [] at = "va_parse_secret" -> "va_sev_inject_secret"
    [] at = "va_sev_inject_secret" -> "return"

\* vm_attest with the key GET made before the attest POST
vm_attest_next_key_before_attest(at, regions, i) ==
  CASE at \in {"ready", "va_sev_launch_update_data"} ->
         IF i < Len(regions) THEN "va_sev_launch_update_data"
         ELSE vm_attest_after_regions
    [] at = "va_sev_launch_update_vmsa" -> "va_sev_launch_measure"
    [] at = "va_sev_launch_measure" -> vm_attest_after_measure
    [] at = "va_lock" -> "va_get_key"
    [] at = "va_get_key" -> "va_post_attest"
    [] at = "va_post_attest" -> "va_parse_secret"
    [] at = "va_parse_secret" -> "va_sev_inject_secret"
    [] at = "va_sev_inject_secret" -> "va_sev_launch_finish"
    [] at = "va_sev_launch_finish" -> "return"

\* the order of vm_attest's steps: what follows step `at` when it succeeded
\* (regions: the measured regions of the call, i: those loaded so far)
vm_attest_next(at, regions, i) ==
  CASE at = "ready" ->
         IF i < Len(regions) THEN "va_sev_launch_update_data"
         ELSE vm_attest_after_regions
    [] at = "va_sev_launch_update_data" ->
         IF i < Len(regions) THEN "va_sev_launch_update_data"
         ELSE vm_attest_after_regions
    [] at = "va_sev_launch_update_vmsa" -> "va_sev_launch_measure"
    [] at = "va_sev_launch_measure" -> vm_attest_after_measure
    [] at = "va_lock" -> "va_post_attest"
    [] at = "va_post_attest" -> "va_get_key"
    [] at = "va_get_key" -> "va_parse_secret"
    [] at = "va_parse_secret" -> "va_sev_inject_secret"
    [] at = "va_sev_inject_secret" -> "va_sev_launch_finish"
    [] at = "va_sev_launch_finish" -> "return"

vm_attest ==
  /\ CanCall
  /\ call("vm_attest")
  /\ loc' = [loc EXCEPT !.regions = measured_regions, !.i = 1]
  /\ pc' = vm_attest_next(pc, measured_regions, 0)
  /\ UNCHANGED <<Rest, amd, curl_agent, log, new_result>>

\* self.sev_launch_update_data(vm_fd, region.host_addr, region.size)
\*     .map_err(Error::SevLaunchUpdateData)?
vm_attest_sev_launch_update_data ==
  /\ pc = "va_sev_launch_update_data"
  /\ LET region == loc.regions[loc.i]
         cmd == sev_launch_update_data(this, region.host_addr, region.size)
     IN \/ /\ Emit(SevCmd("LAUNCH_UPDATE_DATA", cmd, TRUE))
           /\ goto(vm_attest_next(pc, loc.regions, loc.i), [loc EXCEPT !.i = loc.i + 1])
        \/ /\ Emit(SevCmd("LAUNCH_UPDATE_DATA", cmd, FALSE))
           /\ return("SevLaunchUpdateData")
  /\ UNCHANGED <<Rest, amd, curl_agent, new_result>>

\* the VMSA update with its failure reported under the data update's variant
vm_attest_sev_launch_update_vmsa_mistagged ==
  /\ pc = "va_sev_launch_update_vmsa"
  /\ \/ /\ Emit(SevCmd("LAUNCH_UPDATE_VMSA", sev_launch_update_vmsa(this), TRUE))
        /\ goto(vm_attest_next(pc, loc.regions, loc.i), loc)
     \/ /\ Emit(SevCmd("LAUNCH_UPDATE_VMSA", sev_launch_update_vmsa(this), FALSE))
        /\ return("SevLaunchUpdateData")
  /\ UNCHANGED <<Rest, amd, curl_agent, new_result>>

\* self.sev_launch_update_vmsa(vm_fd).map_err(Error::SevLaunchUpdateVmsa)?
vm_attest_sev_launch_update_vmsa ==
  /\ pc = "va_sev_launch_update_vmsa"
  /\ \/ /\ Emit(SevCmd("LAUNCH_UPDATE_VMSA", sev_launch_update_vmsa(this), TRUE))
        /\ goto(vm_attest_next(pc, loc.regions, loc.i), loc)
     \/ /\ Emit(SevCmd("LAUNCH_UPDATE_VMSA", sev_launch_update_vmsa(this), FALSE))
        /\ return("SevLaunchUpdateVmsa")
  /\ UNCHANGED <<Rest, amd, curl_agent, new_result>>

\* MaybeUninit::<Measurement>::uninit(): the buffer before the hypervisor
\* writes it
uninit == <<>>

\* the measurement the firmware writes for the launch that call c measures
Measurement(c) == <<"measurement", c>>

\* LAUNCH_MEASURE with its result ignored: the buffer is taken as initialized
\* also when the command failed
vm_attest_sev_launch_measure_unchecked ==
  /\ pc = "va_sev_launch_measure"
  /\ \/ /\ Emit(Wrote(SevCmd("LAUNCH_MEASURE", sev_launch_measure(this), TRUE),
                      Measurement(CurCall)))
        /\ goto(vm_attest_next(pc, loc.regions, loc.i),
                [loc EXCEPT !.measurement = Measurement(CurCall)])
     \/ /\ Emit(SevCmd("LAUNCH_MEASURE", sev_launch_measure(this), FALSE))
        /\ goto(vm_attest_next(pc, loc.regions, loc.i),
                [loc EXCEPT !.measurement = uninit])
  /\ UNCHANGED <<Rest, amd, curl_agent, new_result>>

\* let measurement = self.sev_launch_measure(vm_fd).map_err(Error::SevLaunchMeasure)?
\* (sev_launch_measure returns the buffer, assume_init, only past the `?` on
\* the ioctl: when the command succeeded and the hypervisor has written it)
vm_attest_sev_launch_measure ==
  /\ pc = "va_sev_launch_measure"
  /\ \/ /\ Emit(Wrote(SevCmd("LAUNCH_MEASURE", sev_launch_measure(this), TRUE),
                      Measurement(CurCall)))
        /\ goto(vm_attest_next(pc, loc.regions, loc.i),
                [loc EXCEPT !.measurement = Measurement(CurCall)])
     \/ /\ Emit(SevCmd("LAUNCH_MEASURE", sev_launch_measure(this), FALSE))
        /\ return("SevLaunchMeasure")
  /\ UNCHANGED <<Rest, amd, curl_agent, new_result>>

\* the Attestation with nonce self.session_id.as_ref().unwrap(), then
\* self.curl_agent.lock().unwrap(): either unwrap may panic
vm_attest_lock ==
  /\ pc = "va_lock"
  /\ IF this.session_id = None
     THEN panic /\ UNCHANGED curl_agent
     ELSE /\ ~curl_agent.locked
          /\ IF curl_agent.poisoned
             THEN panic /\ UNCHANGED curl_agent
             ELSE /\ curl_agent' = [curl_agent EXCEPT !.locked = TRUE]
                  /\ goto(vm_attest_next(pc, loc.regions, loc.i), loc)
  /\ UNCHANGED <<Rest, amd, log, new_result>>

\* the Attestation vm_attest sends: the nonce is the session identifier, the
\* evidence the serialized measurement
Attestation(self, measurement) ==
  [nonce |-> self.session_id, tee |-> "Sev", tee_evidence |-> measurement]

\* the MutexGuard is dropped: at the end of the block, or by an early return
unlock(agent) == [agent EXCEPT !.locked = FALSE]

\* curl_agent.post("{attestation_url}/kbs/v0/attest", attestation)
\*     .map_err(Error::AttestationRequest)?
vm_attest_post ==
  /\ pc = "va_post_attest"
  /\ LET url == <<tee_config.attestation_url, "/kbs/v0/attest">>
         attestation == Attestation(this, loc.measurement)
     IN \E sid \in HeaderSessionIds :
       \/ /\ Emit(Post(NetReq("POST", url, <<>>, TRUE), attestation))
          /\ curl_agent' = post_header(curl_agent, sid)
          /\ goto(vm_attest_next(pc, loc.regions, loc.i), loc)
       \/ /\ Emit(Post(NetReq("POST", url, <<>>, FALSE), attestation))
          /\ curl_agent' = unlock(post_header(curl_agent, sid))
          /\ return("AttestationRequest")
  /\ UNCHANGED <<Rest, amd, new_result>>

\* curl_agent.get("{attestation_url}/kbs/v0/key/{workload_id}")
\*     .map_err(Error::AttestationRequest)?
vm_attest_get ==
  /\ pc = "va_get_key"
  /\ LET url == <<tee_config.attestation_url, "/kbs/v0/key/", tee_config.workload_id>> IN
     \/ /\ Emit(NetReq("GET", url, <<>>, TRUE))
        /\ goto(vm_attest_next(pc, loc.regions, loc.i), loc)
        /\ UNCHANGED curl_agent
     \/ /\ Emit(NetReq("GET", url, <<>>, FALSE))
        /\ curl_agent' = unlock(curl_agent)
        /\ return("AttestationRequest")
  /\ UNCHANGED <<Rest, amd, new_result>>

\* serde_json::from_slice::<Secret>(&secret_resp).map_err(Error::ParseAttestationSecret)?
vm_attest_parse_secret ==
  /\ pc = "va_parse_secret"
  /\ \/ /\ Emit(Parse("PARSE_SECRET", TRUE))
        /\ goto(vm_attest_next(pc, loc.regions, loc.i), loc)
        /\ UNCHANGED curl_agent
     \/ /\ Emit(Parse("PARSE_SECRET", FALSE))
        /\ curl_agent' = unlock(curl_agent)
        /\ return("ParseAttestationSecret")
  /\ UNCHANGED <<Rest, amd, new_result>>

\* guest_mem.get_host_address(GuestAddress(CMDLINE_START)).unwrap(), which panics
\* when the address is not mapped (the guard is dropped while panicking, which
\* poisons the mutex), then
\* self.sev_inject_secret(vm_fd, secret, secret_host_addr).map_err(Error::SevInjectSecret)?
\* and the end of the block, which drops the guard
vm_attest_sev_inject_secret ==
  /\ pc = "va_sev_inject_secret"
  /\ LET cmd == sev_inject_secret(this, "secret", "host(CMDLINE_START)") IN
     \/ /\ panic
        /\ curl_agent' = [curl_agent EXCEPT !.locked = FALSE, !.poisoned = TRUE]
        /\ UNCHANGED log
     \/ /\ Emit(SevCmd("LAUNCH_SECRET", cmd, TRUE))
        /\ curl_agent' = unlock(curl_agent)
        /\ goto(vm_attest_next(pc, loc.regions, loc.i), loc)
     \/ /\ Emit(SevCmd("LAUNCH_SECRET", cmd, FALSE))
        /\ curl_agent' = unlock(curl_agent)
        /\ return("SevInjectSecret")
  /\ UNCHANGED <<Rest, amd, new_result>>

\* self.sev_launch_finish(vm_fd).map_err(Error::SevLaunchFinish)?; Ok(())
vm_attest_sev_launch_finish ==
  /\ pc = "va_sev_launch_finish"
  /\ \/ /\ Emit(SevCmd("LAUNCH_FINISH", sev_launch_finish(this), TRUE))
        /\ goto(vm_attest_next(pc, loc.regions, loc.i), loc)
     \/ /\ Emit(SevCmd("LAUNCH_FINISH", sev_launch_finish(this), FALSE))
        /\ return("SevLaunchFinish")
  /\ UNCHANGED <<Rest, amd, curl_agent, new_result>>

(* ------------------------------------------------------------------ *)
(* The specification                                                    *)
(* ------------------------------------------------------------------ *)

Next ==
  \/ new_open_firmware
  \/ get_and_store_chain_parse
  \/ get_and_store_chain_open
  \/ get_and_store_chain_decode
  \/ fetch_chain_pdh_cert_export
  \/ fetch_chain_get_identifier
  \/ fetch_chain_get_cek
  \/ fetch_chain_decode_cek
  \/ fetch_chain_find_cpu_model
  \/ fetch_chain_get_ask_ark
  \/ fetch_chain_decode_ask_ark
  \/ get_and_store_chain_create
  \/ get_and_store_chain_encode
  \/ new_platform_status
  \/ new_post_auth
  \/ new_parse_challenge
  \/ new_parse_sev_challenge
  \/ new_session_try_from
  \/ new_session_start
  \/ new_return
  \/ vm_prepare
  \/ vm_prepare_sev_init
  \/ vm_prepare_register_enc_memory_region
  \/ vm_prepare_sev_launch_start
  \/ vm_attest
  \/ vm_attest_sev_launch_update_data
  \/ vm_attest_sev_launch_update_vmsa
  \/ vm_attest_sev_launch_measure
  \/ vm_attest_lock
  \/ vm_attest_post
  \/ vm_attest_get
  \/ vm_attest_parse_secret
  \/ vm_attest_sev_inject_secret
  \/ vm_attest_sev_launch_finish

Spec == Init /\ [][Next]_vars

(* ------------------------------------------------------------------ *)
(* Reading the log                                                      *)
(* ------------------------------------------------------------------ *)

Idx == DOMAIN log
Calls == DOMAIN results
Before(i) == 1..(i - 1)

\* the entries of call c, and those of one kind
InCall(c) == {i \in Idx : log[i].call = c}
Cmds(c, kind) == {i \in Idx : log[i].call = c /\ log[i].kind = kind}
\* the entries of one kind among the entries E
Of(E, kind) == {i \in E : log[i].kind = kind}

AttestCalls == {c \in Calls : results[c].op = "vm_attest"}
PrepareCalls == {c \in Calls : results[c].op = "vm_prepare"}

\* some vm_prepare had returned Ok(()) when call c was made
PreparedBefore(c) ==
  \E p \in Before(c) : results[p].op = "vm_prepare" /\ results[p].res = Ok

\* a LAUNCH_START that succeeded was issued before entry i
StartedBefore(i) == \E j \in Before(i) : log[j].id = 2 /\ log[j].ok

(* ------------------------------------------------------------------ *)
(* C1                                                                   *)
(* ------------------------------------------------------------------ *)

\* C1 as stated: whatever calls are made on one controller, no
\* LAUNCH_UPDATE_DATA (id 3) is issued before a LAUNCH_START (id 2) has
\* succeeded, also when vm_attest is called without a successful vm_prepare.
C1_NoUpdateDataBeforeLaunchStart ==
  \A i \in Idx : log[i].id = 3 => StartedBefore(i)

\* C1, amended: a LAUNCH_UPDATE_DATA issued by a vm_attest that was called
\* after some vm_prepare had returned success is preceded by a LAUNCH_START
\* that succeeded.  (vm_attest itself checks nothing: the order is the
\* caller's to keep.)
C1_UpdateDataAfterLaunchStartWhenPrepared ==
  \A i \in Idx :
    (log[i].id = 3 /\ PreparedBefore(log[i].call)) => StartedBefore(i)

C1_Witness ==
  \E i \in Idx : log[i].id = 3 /\ log[i].ok /\ PreparedBefore(log[i].call)

(* ------------------------------------------------------------------ *)
(* C2                                                                   *)
(* ------------------------------------------------------------------ *)

\* C2: every vm_attest call issues at most one LAUNCH_MEASURE and at most one
\* LAUNCH_FINISH, and exactly one of each when it returns success; the
\* LAUNCH_MEASURE comes after every LAUNCH_UPDATE_DATA and LAUNCH_UPDATE_VMSA
\* of the call and before its LAUNCH_FINISH, which is the last command of a
\* successful call, with and without remote attestation.
C2_OneMeasureThenOneFinish ==
  \A c \in AttestCalls :
    LET E == InCall(c)
        M == Of(E, "LAUNCH_MEASURE")
        F == Of(E, "LAUNCH_FINISH")
        U == Of(E, "LAUNCH_UPDATE_DATA") \cup Of(E, "LAUNCH_UPDATE_VMSA")
    IN /\ Cardinality(M) <= 1
       /\ Cardinality(F) <= 1
       /\ \A m \in M : \A u \in U : u < m
       /\ \A f \in F : \E m \in M : m < f
       /\ results[c].res = Ok =>
            /\ Cardinality(M) = 1
            /\ Cardinality(F) = 1
            /\ \A f \in F : \A i \in E : i <= f

C2_Witness ==
  \E c \in AttestCalls :
    /\ results[c].res = Ok
    /\ Cmds(c, "LAUNCH_UPDATE_DATA") # {}
    /\ Cmds(c, "LAUNCH_UPDATE_VMSA") # {}
    /\ Cmds(c, "LAUNCH_SECRET") # {}

(* ------------------------------------------------------------------ *)
(* C3                                                                   *)
(* ------------------------------------------------------------------ *)

\* every LAUNCH_UPDATE_DATA in D succeeded, one per measured region
AllDataLoaded(D) ==
  (\A d \in D : log[d].ok) /\ Cardinality(D) = Len(measured_regions)

\* C3: a vm_attest call in which all data updates succeed issues
\* LAUNCH_UPDATE_VMSA iff sev_es is set, and then exactly once, after every
\* LAUNCH_UPDATE_DATA and before LAUNCH_MEASURE; vm_prepare's INIT has id 1
\* iff sev_es is set, and id 0 otherwise.
C3_VmsaAndInitFollowEncryptedState ==
  /\ \A c \in AttestCalls :
       LET E == InCall(c)
           V == Of(E, "LAUNCH_UPDATE_VMSA")
           D == Of(E, "LAUNCH_UPDATE_DATA")
           M == Of(E, "LAUNCH_MEASURE")
       IN /\ Cardinality(V) <= 1
          /\ V # {} => this.sev_es
          /\ \A v \in V : (\A d \in D : d < v) /\ (\A m \in M : v < m)
          /\ M # {} => (V # {} <=> this.sev_es)
          /\ (results[c].res # None /\ AllDataLoaded(D)) => (V # {} <=> this.sev_es)
  /\ \A i \in Idx :
       log[i].kind = "INIT" => log[i].id = (IF this.sev_es THEN 1 ELSE 0)

C3_Witness ==
  /\ \E c \in AttestCalls :
       /\ results[c].res = Ok
       /\ Cmds(c, "LAUNCH_UPDATE_DATA") # {}
       /\ Cardinality(Cmds(c, "LAUNCH_UPDATE_VMSA")) = 1
  /\ \E i \in Idx : log[i].kind = "INIT" /\ log[i].id = 1

(* ------------------------------------------------------------------ *)
(* C4                                                                   *)
(* ------------------------------------------------------------------ *)

\* C4: LAUNCH_SECRET is issued only after a LAUNCH_MEASURE of the same vm_attest
\* call has succeeded and before that call's LAUNCH_FINISH, at most once per
\* call; a successful call issues it iff attestation_url is not empty, and it
\* is never issued when attestation_url is empty.
C4_SecretBetweenMeasureAndFinish ==
  /\ \A i \in Idx : log[i].kind = "LAUNCH_SECRET" => log[i].call \in AttestCalls
  /\ \A c \in AttestCalls :
       LET E == InCall(c)
           S == Of(E, "LAUNCH_SECRET")
       IN /\ Cardinality(S) <= 1
          /\ \A s \in S :
               /\ \E m \in Of(E, "LAUNCH_MEASURE") : m < s /\ log[m].ok
               /\ \A f \in Of(E, "LAUNCH_FINISH") : s < f
          /\ results[c].res = Ok =>
               (S # {} <=> tee_config.attestation_url # "")
  /\ tee_config.attestation_url = "" =>
       \A i \in Idx : log[i].kind # "LAUNCH_SECRET"

C4_Witness ==
  \E c \in AttestCalls :
    /\ results[c].res = Ok
    /\ \E s \in Cmds(c, "LAUNCH_SECRET") : log[s].ok

(* ------------------------------------------------------------------ *)
(* C5                                                                   *)
(* ------------------------------------------------------------------ *)

\* the launch state a command leads to: Initialized 1, Started 2, DataLoaded 3,
\* VmsaUpdated 4, Measured 5, SecretInjected 6, Finished 7
Rank(e) ==
  CASE e.kind \in {"INIT", "ENC_REGION"} -> 1
    [] e.kind = "LAUNCH_START" -> 2
    [] e.kind = "LAUNCH_UPDATE_DATA" -> 3
    [] e.kind = "LAUNCH_UPDATE_VMSA" -> 4
    [] e.kind = "LAUNCH_MEASURE" -> 5
    [] e.kind = "LAUNCH_SECRET" -> 6
    [] e.kind = "LAUNCH_FINISH" -> 7

HypIdx == {i \in Idx : IsHyp(log[i])}

\* C5 as stated: whatever calls are made on one controller, no hypervisor
\* command is issued once a LAUNCH_FINISH has succeeded, and the launch state
\* (moved by the commands that succeed) never moves backward.
C5_LaunchFinishIsTerminal ==
  LET H == HypIdx
  IN \A j \in H : \A i \in H :
       i < j => /\ ~(log[i].kind = "LAUNCH_FINISH" /\ log[i].ok)
                /\ (log[i].ok /\ log[j].ok) => Rank(log[i]) <= Rank(log[j])

\* the hypervisor commands of call c
HypInCall(c) == {i \in Idx : log[i].call = c /\ IsHyp(log[i])}

\* the hypervisor commands of the vm_attest called right after vm_prepare c
HypInAttestNext(c) ==
  IF /\ results[c].op = "vm_prepare"
     /\ c + 1 \in Calls
     /\ results[c + 1].op = "vm_attest"
  THEN HypInCall(c + 1)
  ELSE {}

\* C5, amended: LAUNCH_FINISH is the last command of the vm_attest call that
\* issues it, so a command that follows a successful LAUNCH_FINISH belongs to a
\* later call made by the caller; and within one call, or a vm_prepare and the
\* vm_attest called next, the commands never move backward along the launch
\* states.  (The controller keeps no launch state and refuses no call.)
C5_FinishEndsItsCallAndOrderWithinLaunch ==
  \A c \in Calls :
    LET H == HypInCall(c)
        N == HypInAttestNext(c)
        HN == H \cup N
    IN /\ \A f \in H : log[f].kind = "LAUNCH_FINISH" => \A j \in H : j <= f
       /\ \A i \in H : \A j \in HN :
            i < j => Rank(log[i]) <= Rank(log[j])

C5_Witness ==
  /\ Len(results) = 2
  /\ results[1] = [op |-> "vm_prepare", res |-> Ok]
  /\ results[2] = [op |-> "vm_attest", res |-> Ok]
  /\ \E s \in Cmds(2, "LAUNCH_SECRET") : log[s].ok

(* ------------------------------------------------------------------ *)
(* C6                                                                   *)
(* ------------------------------------------------------------------ *)

\* the Error variant that names a step of vm_prepare or vm_attest
ErrorOf(e) ==
  CASE e.kind = "INIT" -> "SevInit"
    [] e.kind = "ENC_REGION" -> "MemoryEncryptRegion"
    [] e.kind = "LAUNCH_START" -> "SevLaunchStart"
    [] e.kind = "LAUNCH_UPDATE_DATA" -> "SevLaunchUpdateData"
    [] e.kind = "LAUNCH_UPDATE_VMSA" -> "SevLaunchUpdateVmsa"
    [] e.kind = "LAUNCH_MEASURE" -> "SevLaunchMeasure"
    [] e.kind \in {"GET", "POST"} -> "AttestationRequest"
    [] e.kind = "PARSE_SECRET" -> "ParseAttestationSecret"
    [] e.kind = "LAUNCH_SECRET" -> "SevInjectSecret"
    [] e.kind = "LAUNCH_FINISH" -> "SevLaunchFinish"

\* C6: when a hypervisor command or network request (or the decoding of the
\* secret) fails inside vm_prepare or vm_attest, the call issues nothing after
\* it, the failed step is not issued again, and the error returned is the
\* variant of the step that failed; a call returns an error only so.
C6_FailureEndsTheCall ==
  \A c \in Calls :
    LET E == InCall(c)
        Failed == {i \in E : ~log[i].ok}
    IN /\ Cardinality(Failed) <= 1
       /\ \A i \in Failed :
            /\ \A j \in E : j <= i
            /\ results[c].res = ErrorOf(log[i])
       /\ results[c].res \notin {None, Ok, Panic} => Failed # {}

C6_Witness ==
  /\ \E c \in AttestCalls :
       /\ results[c].res = "AttestationRequest"
       /\ \E i \in InCall(c) : log[i].kind = "GET" /\ ~log[i].ok
  /\ \E c \in PrepareCalls : results[c].res = "MemoryEncryptRegion"

(* ------------------------------------------------------------------ *)
(* C7                                                                   *)
(* ------------------------------------------------------------------ *)

AttestUrl == <<tee_config.attestation_url, "/kbs/v0/attest">>
KeyUrl == <<tee_config.attestation_url, "/kbs/v0/key/", tee_config.workload_id>>

IsReq(e, kind, url) == e.kind = kind /\ e.url = url

\* C7: with attestation_url set, a successful vm_attest does, right after
\* LAUNCH_MEASURE and in this order, one POST to {base}/kbs/v0/attest, one GET
\* of {base}/kbs/v0/key/{workload_id}, one LAUNCH_SECRET, then LAUNCH_FINISH,
\* and no other request; a key GET follows an attest POST that succeeded, a
\* LAUNCH_SECRET a key GET that succeeded and whose body parsed as a Secret.
C7_RemoteExchangeOrder ==
  \A c \in AttestCalls :
    LET E == InCall(c)
        N == {i \in E : IsNet(log[i])}
    IN /\ (tee_config.attestation_url # "" /\ results[c].res = Ok) =>
            \E m \in Of(E, "LAUNCH_MEASURE") :
              /\ log[m].ok
              /\ m + 5 \in Idx
              /\ IsReq(log[m + 1], "POST", AttestUrl) /\ log[m + 1].ok
              /\ IsReq(log[m + 2], "GET", KeyUrl) /\ log[m + 2].ok
              /\ log[m + 3].kind = "PARSE_SECRET" /\ log[m + 3].ok
              /\ log[m + 4].kind = "LAUNCH_SECRET" /\ log[m + 4].ok
              /\ log[m + 5].kind = "LAUNCH_FINISH" /\ log[m + 5].ok
              /\ \A i \in E : i <= m + 5
              /\ N = {m + 1, m + 2}
       /\ \A g \in N :
            log[g].kind = "GET" =>
              /\ IsReq(log[g], "GET", KeyUrl)
              /\ g - 1 \in E
              /\ IsReq(log[g - 1], "POST", AttestUrl) /\ log[g - 1].ok
       /\ \A s \in Of(E, "LAUNCH_SECRET") :
            /\ s - 2 \in E
            /\ log[s - 1].kind = "PARSE_SECRET" /\ log[s - 1].ok
            /\ IsReq(log[s - 2], "GET", KeyUrl) /\ log[s - 2].ok

C7_Witness ==
  /\ tee_config.attestation_url # ""
  /\ \E c \in AttestCalls :
       /\ results[c].res = Ok
       /\ Cardinality({i \in InCall(c) : IsNet(log[i])}) = 2

(* ------------------------------------------------------------------ *)
(* C8                                                                   *)
(* ------------------------------------------------------------------ *)

\* a download of the certificate chain (fetch_chain), not part of negotiation
IsChainDownload(e) ==
  e.call = 0 /\ e.kind = "GET" /\ e.url[1] \in {CEK_SVC, ASK_ARK_SVC}

\* C8: with attestation_url empty, negotiation makes no network call (the only
\* requests are fetch_chain's, made when no chain file is configured) and the
\* session has no remote identifier; with a chain file configured as well, the
\* whole lifecycle makes no network call, and a vm_attest over n measured
\* regions that returns success issues exactly n LAUNCH_UPDATE_DATA, one
\* LAUNCH_MEASURE and one LAUNCH_FINISH.
C8_LocalModeMakesNoNetworkCall ==
  tee_config.attestation_url = "" =>
    /\ \A i \in Idx :
         IsNet(log[i]) =>
           IsChainDownload(log[i]) /\ tee_config.vendor_chain = ""
    /\ new_result = Ok => this.session_id = None
    /\ tee_config.vendor_chain # "" =>
         /\ \A i \in Idx : ~IsNet(log[i])
         /\ \A c \in AttestCalls :
              results[c].res = Ok =>
                /\ Cardinality(Cmds(c, "LAUNCH_UPDATE_DATA")) = Len(measured_regions)
                /\ Cardinality(Cmds(c, "LAUNCH_MEASURE")) = 1
                /\ Cardinality(Cmds(c, "LAUNCH_FINISH")) = 1
                /\ Cardinality(InCall(c)) = Len(measured_regions) + 2

C8_Witness ==
  /\ tee_config.attestation_url = ""
  /\ tee_config.vendor_chain # ""
  /\ Len(measured_regions) = 2
  /\ \E p \in PrepareCalls :
       results[p].res = Ok /\ Cardinality(Cmds(p, "ENC_REGION")) = 2
  /\ \E c \in AttestCalls : results[c].res = Ok

(* ------------------------------------------------------------------ *)
(* C9                                                                   *)
(* ------------------------------------------------------------------ *)

\* C9: with attestation_url set and a valid challenge from the broker, new
\* returns a controller whose start is the one of the challenge, whose
\* session_id is the challenge's id, and whose sev_es is the ENCRYPTED_STATE
\* bit (value 4) of the challenge's policy.
C9_RemoteNegotiationYieldsTheChallenge ==
  (tee_config.attestation_url # "" /\ new_result = Ok) =>
    \E i \in Idx :
      /\ log[i].call = 0 /\ log[i].kind = "POST" /\ log[i].ok
      /\ log[i].url = <<tee_config.attestation_url, "/kbs/v0/auth">>
      /\ LET challenge == log[i].data[1]
         IN /\ challenge.challenge_ok /\ challenge.sev_challenge_ok
            /\ this.start.policy = challenge.policy
            /\ this.start.cert = "cert@broker"
            /\ this.start.session = "session@broker"
            /\ this.session_id = challenge.id
            /\ this.session_id # None
            /\ this.sev_es = ((challenge.policy \div 4) % 2 = 1)

C9_Witness ==
  /\ tee_config.attestation_url # ""
  /\ new_result = Ok
  /\ this.sev_es
  /\ this.session_id = "idB"

(* ------------------------------------------------------------------ *)
(* C10                                                                  *)
(* ------------------------------------------------------------------ *)

\* C10: when new fails at any of its steps there is no controller and no
\* hypervisor command is ever issued; a hypervisor command is issued only
\* after new has returned success.
C10_NoCommandWithoutController ==
  /\ new_result # Ok => amd = <<>> /\ HypIdx = {} /\ results = <<>>
  /\ HypIdx # {} => new_result = Ok /\ amd # <<>>

C10_Witness ==
  /\ new_result = "DownloadCek"
  /\ pc = "new_failed"
  /\ \E i \in Idx : IsNet(log[i]) /\ ~log[i].ok

(* ------------------------------------------------------------------ *)
(* C11                                                                  *)
(* ------------------------------------------------------------------ *)

\* the last request of construction
LastReq == log[Len(log)]

\* C11 as stated: a failure of remote chain acquisition is reported under the
\* tag of the leg that failed: a failed download of the CEK as DownloadCek, a
\* failed download of the ASK/ARK bundle as DownloadAskArk, a CEK that does not
\* decode as DecodeCek and an ASK/ARK bundle that does not decode as
\* DecodeAskArk; no failure of one leg is reported under the tag of the other.
C11_ChainFailureTaggedByLeg ==
  /\ \A i \in Idx :
       (log[i].call = 0 /\ log[i].kind = "GET" /\ ~log[i].ok) =>
         new_result = (IF log[i].url[1] = CEK_SVC THEN "DownloadCek"
                       ELSE "DownloadAskArk")
  /\ new_result \in {"DownloadCek", "DecodeCek"} =>
       /\ Len(log) = 1
       /\ LastReq.url[1] = CEK_SVC
       /\ LastReq.ok = (new_result = "DecodeCek")
  /\ new_result \in {"DownloadAskArk", "DecodeAskArk"} =>
       /\ Len(log) = 2
       /\ LastReq.url[1] = ASK_ARK_SVC
       /\ LastReq.ok = (new_result = "DecodeAskArk")

(* ------------------------------------------------------------------ *)
(* C12: the CurlAgent taken alone                                       *)
(* ------------------------------------------------------------------ *)

\* the variables a CurlAgent does not touch
NotOfClient ==
  <<tee_config, guest_mem, measured_regions, pc, amd, loc, new_result, results,
    arg, ret, threads>>

\* a CurlAgent right after CurlAgent::new, for a broker at "https://kbs"
ClientInit ==
  /\ tee_config = [attestation_url |-> "https://kbs", vendor_chain |-> "/etc/sev.chain",
                   workload_id |-> "wl"]
  /\ guest_mem = GuestMemoryMmap(1)
  /\ measured_regions = <<>>
  /\ pc = "client"
  /\ amd = <<>>
  /\ curl_agent = CurlAgent_new
  /\ loc = NoLoc
  /\ log = <<>>
  /\ new_result = None
  /\ results = <<>>
  /\ headers = <<>>
  /\ arg = None
  /\ ret = None
  /\ threads = <<>>

\* session identifiers the headers of a response may yield (None: none does)
ClientSessionIds == HeaderSessionIds \cup {"cookie2"}

AuthUrl == <<tee_config.attestation_url, "/kbs/v0/auth">>

\* CurlAgent::post: the Cookie header is built from the identifier captured
\* so far, the header_function runs on the headers of the response, and the
\* transfer succeeds or fails
CurlAgent_post ==
  /\ pc = "client"
  /\ Len(log) < MaxRequests
  /\ \E url \in {AuthUrl, AttestUrl}, sid \in ClientSessionIds, ok \in BOOLEAN :
       /\ Emit(NetReq("POST", url, <<>>, ok))
       /\ curl_agent' = post_header(curl_agent, sid)
       /\ headers' = Append(headers, sid)
  /\ UNCHANGED NotOfClient

\* CurlAgent::get: no Cookie header is built and no header_function is set
CurlAgent_get ==
  /\ pc = "client"
  /\ Len(log) < MaxRequests
  /\ \E ok \in BOOLEAN : Emit(NetReq("GET", KeyUrl, <<>>, ok))
  /\ headers' = Append(headers, None)
  /\ UNCHANGED curl_agent
  /\ UNCHANGED NotOfClient

ClientNext == CurlAgent_post \/ CurlAgent_get

SpecClient == ClientInit /\ [][ClientNext]_vars

\* the POSTs before request i whose response yielded a session identifier
Captures(i) == {j \in Before(i) : log[j].kind = "POST" /\ headers[j] # None}

Last(S) == CHOOSE x \in S : \A y \in S : y <= x

\* C12: over any sequence of post and get calls on one CurlAgent, a POST
\* carries the Cookie session_id=<v> iff an earlier POST's response yielded a
\* session identifier, <v> is the one captured last, and an identifier once
\* captured is never cleared; so an attest POST that follows an auth POST whose
\* response yielded one, with no capture in between, echoes that one.
C12_PostEchoesLastCapturedSessionId ==
  /\ \A i \in Idx :
       log[i].kind = "POST" =>
         /\ log[i].cookie # None <=> Captures(i) # {}
         /\ Captures(i) # {} => log[i].cookie = headers[Last(Captures(i))]
  /\ Captures(Len(log) + 1) # {} =>
       curl_agent.session_id = headers[Last(Captures(Len(log) + 1))]
  /\ Captures(Len(log) + 1) = {} => curl_agent.session_id = None
  /\ \A i \in Idx : \A j \in Before(i) :
       ( /\ IsReq(log[j], "POST", AuthUrl) /\ headers[j] # None
         /\ IsReq(log[i], "POST", AttestUrl)
         /\ \A k \in (j + 1)..(i - 1) : headers[k] = None )
       => log[i].cookie = headers[j]

C12_Witness ==
  /\ Len(log) = 4
  /\ IsReq(log[1], "POST", AuthUrl) /\ headers[1] = "cookie1"
  /\ IsReq(log[2], "POST", AttestUrl) /\ headers[2] = "cookie2"
  /\ log[2].cookie = "cookie1"
  /\ log[3].kind = "GET"
  /\ IsReq(log[4], "POST", AttestUrl) /\ headers[4] = None
  /\ log[4].cookie = "cookie2"
  /\ curl_agent.session_id = "cookie2"

(* ------------------------------------------------------------------ *)
(* C13: extract_session_id taken alone                                  *)
(* ------------------------------------------------------------------ *)

\* A header is a sequence of bytes: one-character strings, and "0xFF" for a
\* byte that occurs in no UTF-8 text.  An Option<String> is <<>> for None and
\* <<s>> for Some(s).

\* std::str::from_utf8(header) is Ok
from_utf8(header) == \A i \in DOMAIN header : header[i] # "0xFF"

\* str::contains
contains(s, pat) ==
  \E i \in 1..(Len(s) - Len(pat) + 1) : SubSeq(s, i, i + Len(pat) - 1) = pat

RECURSIVE split(_, _)
\* str::split(sep).collect(): the pieces between the separators, empty ones too
split(s, sep) ==
  IF \A i \in DOMAIN s : s[i] # sep
  THEN <<s>>
  ELSE LET i == CHOOSE k \in DOMAIN s : s[k] = sep /\ \A j \in 1..(k - 1) : s[j] # sep
       IN <<SubSeq(s, 1, i - 1)>> \o split(SubSeq(s, i + 1, Len(s)), sep)

session_id == <<"s", "e", "s", "s", "i", "o", "n", "_", "i", "d">>

RECURSIVE extract_session_id_last(_)
\* the loop over the parts going on after a match: the last match wins
extract_session_id_last(parts) ==
  IF parts = <<>> THEN <<>>
  ELSE LET elems == split(Head(parts), "=")
           rest == extract_session_id_last(Tail(parts))
       IN IF rest # <<>> THEN rest
          ELSE IF Len(elems) = 2 /\ contains(elems[1], session_id)
          THEN <<elems[2]>>
          ELSE <<>>

RECURSIVE extract_session_id_loop(_)
\* for p in parts { .. if elems.len() == 2 && elems[0].contains("session_id")
\*                       { return Some(elems[1].to_string()) } } None
extract_session_id_loop(parts) ==
  IF parts = <<>> THEN <<>>
  ELSE LET elems == split(Head(parts), "=")
       IN IF Len(elems) = 2 /\ contains(elems[1], session_id)
          THEN <<elems[2]>>
          ELSE extract_session_id_loop(Tail(parts))

extract_session_id(header) ==
  IF ~from_utf8(header) THEN <<>>
  ELSE IF ~contains(header, session_id) THEN <<>>
  ELSE extract_session_id_loop(split(header, ";"))

\* the parts headers are made of
HeaderParts ==
  LET a == <<"a">>
      b == <<"b">>
      eq == <<"=">>
  IN { <<>>, a, a \o eq \o b, <<"0xFF">>,
       session_id, session_id \o eq \o a, session_id \o eq \o b,
       session_id \o eq \o a \o eq \o b, session_id \o eq,
       a \o eq \o session_id,
       <<"x">> \o session_id \o <<"y">> \o eq \o <<"c">>,
       <<" ">> \o session_id \o eq \o a \o <<" ">>,
       <<"S">> \o Tail(session_id) \o eq \o a }

RECURSIVE join(_, _)
join(parts, sep) ==
  IF Len(parts) = 1 THEN parts[1]
  ELSE parts[1] \o <<sep>> \o join(Tail(parts), sep)

\* the header "foo=1; session_id=abc123; bar=x"
ExampleHeader ==
  <<"f", "o", "o", "=", "1", ";", " ">> \o session_id
    \o <<"=", "a", "b", "c", "1", "2", "3", ";", " ", "b", "a", "r", "=", "x">>

Headers ==
  {ExampleHeader}
  \cup UNION {{join(ps, ";") : ps \in [1..n -> HeaderParts]} : n \in 1..MaxParts}

\* the variables of the controller, at rest while a function is taken alone
AloneInit ==
  /\ tee_config = [attestation_url |-> "", vendor_chain |-> "", workload_id |-> "wl"]
  /\ guest_mem = GuestMemoryMmap(1)
  /\ measured_regions = <<>>
  /\ amd = <<>>
  /\ curl_agent = None
  /\ loc = NoLoc
  /\ log = <<>>
  /\ new_result = None
  /\ results = <<>>
  /\ headers = <<>>
  /\ threads = <<>>

Alone ==
  <<tee_config, guest_mem, measured_regions, amd, curl_agent, loc, log, new_result,
    results, headers, threads>>

ExtractInit ==
  /\ AloneInit
  /\ pc = "extract_session_id"
  /\ arg \in Headers
  /\ ret = None

extract_session_id_call ==
  /\ pc = "extract_session_id"
  /\ ret' = extract_session_id(arg)
  /\ pc' = "returned"
  /\ UNCHANGED <<Alone, arg>>

SpecExtract == ExtractInit /\ [][extract_session_id_call]_vars

\* the attribute pairs of header h whose name contains "session_id": a part
\* from a to b (between two ';', or an end of h) of the form name=value with one
\* '=', at e
SessionPairs(h) ==
  UNION
    {LET b == CHOOSE b \in (a - 1)..Len(h) :
                /\ \A i \in a..b : h[i] # ";"
                /\ b = Len(h) \/ h[b + 1] = ";"
     IN {<<a, b, e>> : e \in
           {e \in a..b :
              /\ \A i \in a..b : h[i] = "=" <=> i = e
              /\ \E i \in a..(e - Len(session_id)) :
                   \A k \in 1..Len(session_id) : h[i + k - 1] = session_id[k]}}
     : a \in {a \in 1..(Len(h) + 1) : a = 1 \/ h[a - 1] = ";"}}

\* C13: extract_session_id returns none when the header is not valid text or
\* does not contain "session_id"; otherwise the header is split on ';' and each
\* part on '=', and the value of the first pair whose name contains
\* "session_id" (as written, lower case) is returned, none when there is no
\* such pair; "foo=1; session_id=abc123; bar=x" yields "abc123".
C13_ExtractSessionId ==
  pc = "returned" =>
    LET P == SessionPairs(arg)
    IN /\ (~from_utf8(arg) \/ P = {}) => ret = <<>>
       /\ (from_utf8(arg) /\ P # {}) =>
            \E t \in P :
              /\ \A u \in P : t[1] <= u[1]
              /\ ret = <<SubSeq(arg, t[3] + 1, t[2])>>
       /\ (\A i \in 1..(Len(arg) - 9) : SubSeq(arg, i, i + 9) # session_id) =>
            ret = <<>>
       /\ arg = ExampleHeader => ret = <<<<"a", "b", "c", "1", "2", "3">>>>

C13_Witness ==
  /\ pc = "returned"
  /\ Cardinality(SessionPairs(arg)) = 2
  /\ \E i \in DOMAIN arg : arg[i] = " "
  /\ ret = <<<<"b">>>>

(* ------------------------------------------------------------------ *)
(* C14: find_cpu_model taken alone                                      *)
(* ------------------------------------------------------------------ *)

\* what procfs may report for /proc/cpuinfo
CpuInfo ==
  [readable : BOOLEAN, has_core : BOOLEAN, family : CpuFamilies, model : CpuModelIds]

CpuInit ==
  /\ AloneInit
  /\ pc = "find_cpu_model"
  /\ arg \in CpuInfo
  /\ ret = None

find_cpu_model_call ==
  /\ pc = "find_cpu_model"
  /\ ret' = find_cpu_model(arg.readable, arg.has_core, arg.family, arg.model)
  /\ pc' = "returned"
  /\ UNCHANGED <<Alone, arg>>

SpecCpu == CpuInit /\ [][find_cpu_model_call]_vars

\* C14: with core 0 of /proc/cpuinfo readable, find_cpu_model maps family 23
\* model 1 to Naples, family 23 model 49 to Rome and family 25 model 1 to
\* Milan; any other family and model that are both present give
\* UnknownCpuModel; family 23 or 25 without a model field gives InvalidCpuData;
\* and nothing but the result is written.
C14_FindCpuModel ==
  pc = "returned" =>
    /\ (arg.readable /\ arg.has_core) =>
         /\ (arg.family = "23" /\ arg.model = "1") => ret = "naples"
         /\ (arg.family = "23" /\ arg.model = "49") => ret = "rome"
         /\ (arg.family = "25" /\ arg.model = "1") => ret = "milan"
         /\ ( /\ arg.family # None /\ arg.model # None
              /\ <<arg.family, arg.model>> \notin
                   {<<"23", "1">>, <<"23", "49">>, <<"25", "1">>} )
            => ret = "UnknownCpuModel"
         /\ (arg.family \in {"23", "25"} /\ arg.model = None) => ret = "InvalidCpuData"
    /\ log = <<>> /\ curl_agent = None /\ amd = <<>> /\ loc = NoLoc
    /\ new_result = None /\ results = <<>>

C14_Witness ==
  /\ pc = "returned"
  /\ arg.readable /\ arg.has_core
  /\ arg.family = "25" /\ arg.model = "49"
  /\ ret = "UnknownCpuModel"

(* ------------------------------------------------------------------ *)
(* C15                                                                  *)
(* ------------------------------------------------------------------ *)

\* C15: a vm_prepare call issues first one INIT, then, once INIT succeeded, one
\* registration per region of guest memory, in the order of the regions and
\* each after the one before succeeded, then one LAUNCH_START, issued only when
\* INIT and all the registrations succeeded; so a call that returns success has
\* registered every region, and a failed registration prevents LAUNCH_START.
\* No other call issues any of the three.
C15_PrepareOrder ==
  /\ \A i \in Idx :
       log[i].kind \in {"INIT", "ENC_REGION", "LAUNCH_START"} =>
         log[i].call \in PrepareCalls
  /\ \A c \in PrepareCalls :
       LET E == InCall(c)
           n == Cardinality(E)
           R == Of(E, "ENC_REGION")
           S == Of(E, "LAUNCH_START")
           first == CHOOSE i \in E : \A j \in E : i <= j
       IN /\ n <= Len(guest_mem) + 2
          /\ results[c].res # None => n >= 1
          /\ n >= 1 =>
               /\ E = first..(first + n - 1)
               /\ log[first].kind = "INIT"
               /\ \A i \in E \ {first + n - 1} : log[i].ok
               /\ \A k \in 1..(n - 1) :
                    IF k <= Len(guest_mem)
                    THEN /\ log[first + k].kind = "ENC_REGION"
                         /\ log[first + k].data =
                              <<guest_mem[k].host_addr, guest_mem[k].size>>
                    ELSE log[first + k].kind = "LAUNCH_START"
          /\ (\E r \in R : ~log[r].ok) => S = {}
          /\ results[c].res = Ok =>
               /\ Cardinality(R) = Len(guest_mem)
               /\ Cardinality(S) = 1
               /\ \A i \in E : log[i].ok

C15_Witness ==
  /\ Len(guest_mem) = 2
  /\ \E c \in PrepareCalls :
       results[c].res = Ok /\ Cardinality(Cmds(c, "ENC_REGION")) = 2
  /\ \E c \in PrepareCalls :
       /\ results[c].res = "MemoryEncryptRegion"
       /\ Cardinality(Cmds(c, "ENC_REGION")) = 2

(* ------------------------------------------------------------------ *)
(* C16                                                                  *)
(* ------------------------------------------------------------------ *)

\* the steps of vm_attest that come after `measurement` is bound
AfterMeasure ==
  {"va_lock", "va_post_attest", "va_get_key", "va_parse_secret",
   "va_sev_inject_secret", "va_sev_launch_finish"}

\* C16: the measurement is used only when LAUNCH_MEASURE returned success: a
\* call whose LAUNCH_MEASURE fails writes and reads no measurement and makes no
\* attest POST, no key GET and no LAUNCH_SECRET; every attest POST of vm_attest
\* carries as evidence the measurement written by the LAUNCH_MEASURE, a
\* successful one, of the same call.
C16_MeasurementUsedOnlyAfterSuccess ==
  /\ \A i \in Idx :
       LET e == log[i]
       IN e.call \in AttestCalls =>
            /\ e.kind = "LAUNCH_MEASURE" =>
                 IF e.ok
                 THEN e.out = <<Measurement(e.call)>>
                 ELSE /\ e.out = <<>>
                      /\ \A j \in Idx : log[j].call = e.call => j <= i
            /\ (IsNet(e) \/ e.kind = "LAUNCH_SECRET") =>
                 \E m \in Before(i) :
                   /\ log[m].call = e.call
                   /\ log[m].kind = "LAUNCH_MEASURE"
                   /\ log[m].ok
                   /\ e.kind = "POST" =>
                        /\ e.body[1].tee_evidence # uninit
                        /\ log[m].out = <<e.body[1].tee_evidence>>
  /\ pc \in AfterMeasure =>
       /\ loc.measurement = Measurement(CurCall)
       /\ \E m \in Idx :
            /\ log[m].call = CurCall
            /\ log[m].kind = "LAUNCH_MEASURE"
            /\ log[m].ok
  /\ pc \notin AfterMeasure => loc.measurement = uninit

C16_Witness ==
  /\ Len(results) = 2
  /\ results[1] = [op |-> "vm_attest", res |-> "SevLaunchMeasure"]
  /\ results[2] = [op |-> "vm_attest", res |-> Ok]
  /\ \E p \in Cmds(2, "POST") :
       log[p].ok /\ log[p].body[1].tee_evidence = Measurement(2)

(* ------------------------------------------------------------------ *)
(* C18                                                                  *)
(* ------------------------------------------------------------------ *)

\* C18 as stated: the LAUNCH_UPDATE_DATA commands of a vm_attest call are
\* issued one per measured region, in the order given, and the k-th carries the
\* host address and the length of the k-th region, whatever the length, 2^32
\* bytes or more included; a call that gets past them has issued one for every
\* region.
C18_UpdateDataCarriesRegion ==
  \A c \in AttestCalls :
    LET D == Cmds(c, "LAUNCH_UPDATE_DATA")
        n == Cardinality(D)
        first == CHOOSE i \in D : \A j \in D : i <= j
    IN /\ n <= Len(measured_regions)
       /\ n >= 1 =>
            /\ D = first..(first + n - 1)
            /\ \A k \in 1..n :
                 log[first + k - 1].data =
                   <<measured_regions[k].host_addr, measured_regions[k].size>>
       /\ Cmds(c, "LAUNCH_MEASURE") # {} => n = Len(measured_regions)

(* ------------------------------------------------------------------ *)
(* C19                                                                  *)
(* ------------------------------------------------------------------ *)

\* the session identifiers of the challenges the broker sent during negotiation
ChallengeIds ==
  {log[i].data[1].id : i \in {j \in Idx : IsReq(log[j], "POST", AuthUrl) /\ log[j].ok}}

\* C19: a controller that new returned has a session identifier iff
\* attestation_url is not empty; no vm_prepare or vm_attest step modifies its
\* start, session_id or sev_es; so where vm_attest builds the Attestation the
\* identifier it unwraps is there, and the nonce of every attest POST is the
\* identifier of the broker's challenge.
C19_SessionFixedAtConstruction ==
  /\ [](new_result = Ok =>
          /\ amd # <<>>
          /\ this.session_id # None <=> tee_config.attestation_url # ""
          /\ pc \in {"va_lock", "va_post_attest"} => this.session_id \in ChallengeIds
          /\ \A i \in Idx :
               IsReq(log[i], "POST", AttestUrl) =>
                 /\ log[i].body[1].nonce # None
                 /\ log[i].body[1].nonce = this.session_id
                 /\ ChallengeIds = {log[i].body[1].nonce})
  /\ [][amd # <<>> => amd' = amd]_vars

C19_Witness ==
  /\ Len(results) = 2
  /\ results[1] = [op |-> "vm_prepare", res |-> Ok]
  /\ results[2] = [op |-> "vm_attest", res |-> Ok]
  /\ \E i \in Cmds(2, "POST") : log[i].body[1].nonce = "idB"

(* ------------------------------------------------------------------ *)
(* C20                                                                  *)
(* ------------------------------------------------------------------ *)

\* the command code of each kind of SEV command
CommandCodes(kind) ==
  CASE kind = "INIT" -> {0, 1}
    [] kind = "LAUNCH_START" -> {2}
    [] kind = "LAUNCH_UPDATE_DATA" -> {3}
    [] kind = "LAUNCH_UPDATE_VMSA" -> {4}
    [] kind = "LAUNCH_SECRET" -> {5}
    [] kind = "LAUNCH_MEASURE" -> {6}
    [] kind = "LAUNCH_FINISH" -> {7}

\* C20 as stated: every SEV command of a controller (INIT, LAUNCH_START,
\* LAUNCH_UPDATE_DATA, LAUNCH_UPDATE_VMSA, LAUNCH_SECRET, LAUNCH_MEASURE,
\* LAUNCH_FINISH) carries in sev_fd the descriptor of the firmware handle
\* opened at construction, and in id the command code of its kind.
C20_CommandsCarryFirmwareFd ==
  \A i \in Idx :
    (IsHyp(log[i]) /\ log[i].kind # "ENC_REGION") =>
      /\ log[i].sev_fd = FwFd
      /\ log[i].id \in CommandCodes(log[i].kind)

(* ------------------------------------------------------------------ *)
(* C17: one controller shared by several threads                        *)
(* ------------------------------------------------------------------ *)

\* Thread 1 constructs the controller (AmdSev::new, with the chain fetched and
\* a broker configured), then every thread may call vm_attest on it once, at
\* any time.  A transfer of the CurlAgent takes two steps, its start and its
\* end, and is outstanding in between; the hypervisor commands of vm_attest
\* before the exchange are one step.  `log` records the lock and unlock of the
\* mutex and the start and the end of every transfer.

ThreadIds == 1..MaxThreads

NotOfThreads ==
  <<tee_config, guest_mem, measured_regions, pc, loc, new_result, results, headers,
    arg, ret>>

ThreadsInit ==
  /\ tee_config = [attestation_url |-> "https://kbs", vendor_chain |-> "",
                   workload_id |-> "wl"]
  /\ guest_mem = GuestMemoryMmap(1)
  /\ measured_regions = <<>>
  /\ pc = "threads"
  /\ amd = <<>>
  /\ curl_agent = CurlAgent_new
  /\ loc = NoLoc
  /\ log = <<>>
  /\ new_result = None
  /\ results = <<>>
  /\ headers = <<>>
  /\ arg = None
  /\ ret = None
  /\ threads = [t \in ThreadIds |->
                  [pc |-> IF t = 1 THEN "fc_get_cek" ELSE "idle",
                   guard |-> FALSE, inflight |-> FALSE]]

\* the places where a method of the CurlAgent is called, and its URL
Sites == {"fc_get_cek", "fc_get_ask_ark", "new_post_auth", "va_post_attest", "va_get_key"}

SiteReq(site) ==
  CASE site = "fc_get_cek" -> [kind |-> "GET", url |-> <<CEK_SVC, "chip-id">>]
    [] site = "fc_get_ask_ark" -> [kind |-> "GET", url |-> <<ASK_ARK_SVC, "ask_ark_">>]
    [] site = "new_post_auth" -> [kind |-> "POST", url |-> AuthUrl]
    [] site = "va_post_attest" -> [kind |-> "POST", url |-> AttestUrl]
    [] site = "va_get_key" -> [kind |-> "GET", url |-> KeyUrl]

\* where a thread goes on when the transfer of a site succeeded, and when it failed
SiteNext(site, ok) ==
  CASE site = "fc_get_cek" -> IF ok THEN "fc_get_ask_ark" ELSE "new_failed"
    [] site = "fc_get_ask_ark" -> IF ok THEN "new_post_auth" ELSE "new_failed"
    [] site = "new_post_auth" -> IF ok THEN "new_return" ELSE "new_failed"
    [] site = "va_post_attest" -> IF ok THEN "va_get_key" ELSE "failed"
    [] site = "va_get_key" -> IF ok THEN "va_parse_secret" ELSE "failed"

\* the guard taken for each call of the agent and dropped right after it
guard_after_per_request(site, guard, ok) == FALSE

\* whether the thread holds the MutexGuard after the transfer of a site: the
\* guard bound at line 540 lives to the end of the block, and an early return
\* drops it
guard_after(site, guard, ok) == guard /\ ok

Wire(t, kind, url, phase, ok) ==
  [thread |-> t, kind |-> kind, url |-> url, phase |-> phase, ok |-> ok]

Step(t, to) == threads' = [threads EXCEPT ![t].pc = to]

\* the thread drops the guard it holds and goes on at `to`
Drop(t, to, poison) ==
  /\ threads' = [threads EXCEPT ![t].pc = to, ![t].guard = FALSE]
  /\ curl_agent' = [curl_agent EXCEPT !.locked = FALSE,
                                      !.poisoned = curl_agent.poisoned \/ poison]
  /\ Emit(Wire(t, "UNLOCK", <<>>, "-", TRUE))

\* transfer.perform() is entered
t_perform(t) ==
  /\ threads[t].pc \in Sites
  /\ ~threads[t].inflight
  /\ threads' = [threads EXCEPT ![t].inflight = TRUE]
  /\ LET r == SiteReq(threads[t].pc) IN Emit(Wire(t, r.kind, r.url, "begin", TRUE))
  /\ UNCHANGED <<NotOfThreads, amd, curl_agent>>

\* transfer.perform() returns
t_done(t) ==
  /\ threads[t].inflight
  /\ \E ok \in BOOLEAN :
       LET site == threads[t].pc
           r == SiteReq(site)
           keep == guard_after(site, threads[t].guard, ok)
       IN /\ threads' = [threads EXCEPT ![t].inflight = FALSE,
                                        ![t].pc = SiteNext(site, ok),
                                        ![t].guard = keep]
          /\ IF threads[t].guard /\ ~keep
             THEN /\ curl_agent' = unlock(curl_agent)
                  /\ log' = log \o <<Wire(t, r.kind, r.url, "end", ok),
                                      Wire(t, "UNLOCK", <<>>, "-", TRUE)>>
             ELSE /\ UNCHANGED curl_agent
                  /\ Emit(Wire(t, r.kind, r.url, "end", ok))
  /\ UNCHANGED <<NotOfThreads, amd>>

\* new: Ok(AmdSev { .., curl_agent: Arc::new(Mutex::new(curl_agent)) }); from
\* here on the controller, and the agent in it, can be reached by every thread
t_new_return(t) ==
  /\ threads[t].pc = "new_return"
  /\ amd' = <<[start |-> [policy |-> 1, cert |-> "cert@broker", session |-> "session@broker"],
              session_id |-> "idA", sev_es |-> FALSE]>>
  /\ Step(t, "idle")
  /\ UNCHANGED <<NotOfThreads, curl_agent, log>>

\* vm_attest is called, and issues its commands up to LAUNCH_MEASURE
t_vm_attest(t) ==
  /\ threads[t].pc = "idle"
  /\ amd # <<>>
  /\ \/ Step(t, "va_lock")
     \/ Step(t, "failed")
  /\ UNCHANGED <<NotOfThreads, amd, curl_agent, log>>

\* self.curl_agent.lock().unwrap(): blocks while another thread holds the
\* guard, panics when the mutex is poisoned
t_lock(t) ==
  /\ threads[t].pc = "va_lock"
  /\ ~curl_agent.locked
  /\ IF curl_agent.poisoned
     THEN Step(t, "panicked") /\ UNCHANGED <<curl_agent, log>>
     ELSE /\ curl_agent' = [curl_agent EXCEPT !.locked = TRUE]
          /\ threads' = [threads EXCEPT ![t].pc = "va_post_attest", ![t].guard = TRUE]
          /\ Emit(Wire(t, "LOCK", <<>>, "-", TRUE))
  /\ UNCHANGED <<NotOfThreads, amd>>

\* serde_json::from_slice::<Secret>(&secret_resp)
t_parse_secret(t) ==
  /\ threads[t].pc = "va_parse_secret"
  /\ \/ Step(t, "va_sev_inject_secret") /\ UNCHANGED <<curl_agent, log>>
     \/ Drop(t, "failed", FALSE)
  /\ UNCHANGED <<NotOfThreads, amd>>

\* get_host_address(..).unwrap() and sev_inject_secret, then the end of the block
t_sev_inject_secret(t) ==
  /\ threads[t].pc = "va_sev_inject_secret"
  /\ \/ Drop(t, "panicked", TRUE)
     \/ Drop(t, "va_sev_launch_finish", FALSE)
     \/ Drop(t, "failed", FALSE)
  /\ UNCHANGED <<NotOfThreads, amd>>

\* self.sev_launch_finish(vm_fd)
t_sev_launch_finish(t) ==
  /\ threads[t].pc = "va_sev_launch_finish"
  /\ Step(t, "returned") \/ Step(t, "failed")
  /\ UNCHANGED <<NotOfThreads, amd, curl_agent, log>>

ThreadsNext ==
  \E t \in ThreadIds :
    \/ t_perform(t)
    \/ t_done(t)
    \/ t_new_return(t)
    \/ t_vm_attest(t)
    \/ t_lock(t)
    \/ t_parse_secret(t)
    \/ t_sev_inject_secret(t)
    \/ t_sev_launch_finish(t)

SpecThreads == ThreadsInit /\ [][ThreadsNext]_vars

\* the threads with a transfer outstanding on the agent
Outstanding == {t \in ThreadIds : threads[t].inflight}

\* thread t alone can reach the agent: it holds the guard of the mutex, or the
\* agent is still a local of the AmdSev::new it runs
Exclusive(t) ==
  \/ /\ threads[t].guard
     /\ curl_agent.locked
     /\ \A u \in ThreadIds \ {t} : ~threads[u].guard
  \/ /\ amd = <<>>
     /\ \A u \in ThreadIds \ {t} : threads[u].pc = "idle"

\* C17: under every interleaving of the threads at most one transfer is
\* outstanding on the agent; a thread calls the agent, in negotiation and in
\* the attestation exchange, only while it alone can reach it (guard held, or
\* agent not shared yet); and the key GET of a vm_attest follows the attest
\* POST of the same call with nothing of any thread in between, neither a
\* transfer nor an unlock: one hold of the lock covers both.
C17_OneRequestOutstanding ==
  /\ Cardinality(Outstanding) <= 1
  /\ \A t \in ThreadIds :
       (threads[t].inflight \/ threads[t].pc \in {"va_post_attest", "va_get_key"}) =>
         Exclusive(t)
  /\ \A i \in Idx :
       /\ (log[i].phase = "begin" /\ i < Len(log)) =>
            /\ log[i + 1].phase = "end"
            /\ log[i + 1].thread = log[i].thread
            /\ log[i + 1].url = log[i].url
       /\ (log[i].phase = "begin" /\ log[i].url = KeyUrl) =>
            /\ i > 3
            /\ log[i - 1] = Wire(log[i].thread, "POST", AttestUrl, "end", TRUE)
            /\ log[i - 2] = Wire(log[i].thread, "POST", AttestUrl, "begin", TRUE)
            /\ log[i - 3] = Wire(log[i].thread, "LOCK", <<>>, "-", TRUE)

C17_Witness ==
  \E t \in ThreadIds : \E u \in ThreadIds \ {t} : \E w \in ThreadIds \ {t, u} :
    /\ threads[t].inflight /\ threads[t].pc = "va_get_key"
    /\ threads[u].pc = "va_lock"
    /\ threads[w].pc = "returned"
    /\ \E i \in Idx : log[i] = Wire(w, "GET", KeyUrl, "end", TRUE)

====
